---- MODULE Spec2Model ----
(***************************************************************************)
(* Model of the quiz-buddy tutoring orchestrator: the state reconciler     *)
(* (state_utils.bulk_set_state), the flashcard populator                   *)
(* (state_utils.populate_flashcards) and the plan executor                 *)
(* (quiz_agentic_design.execute_plan), driven by the planner node.         *)
(***************************************************************************)
EXTENDS Integers, Sequences, FiniteSets, TLC

VARIABLES
    state,          \* the session state handed from node to node
    current_plan,   \* the steps of state["current_plan"] for this turn, empty between turns
    pc,             \* the node of the workflow graph that runs next
    prev,           \* the state this turn started with
    calls,          \* one record per step execute_plan processed in this turn
    raised,         \* TRUE iff execute_plan ended with an exception in this turn
    evaluated,      \* the record of the call of evaluate in this turn, if it was called
    reply,          \* the reply of the planning model in this turn, as it is composed
    ran             \* the steps of the graph in this turn: the nodes started, and on what

vars == <<state, current_plan, pc, prev, calls, raised, evaluated, reply, ran>>

----------------------------------------------------------------------------
(* JSON-like values.  Every value carries its Python type as the name of   *)
(* its single record field, so values of different types are unequal.      *)

Null == [nl |-> TRUE]
Str(s) == [st |-> s]
Num(n) == [nm |-> n]
Dict(f) == [mp |-> f]
List(q) == [ls |-> q]

IsDict(v) == DOMAIN v = {"mp"}
IsList(v) == DOMAIN v = {"ls"}

\* {**a, **b} on the key/value functions of two dicts: the keys of b win
DictMerge(a, b) ==
    [k \in (DOMAIN a) \cup (DOMAIN b) |-> IF k \in DOMAIN b THEN b[k] ELSE a[k]]

\* d[k] = v on the key/value function of a dict
DictSet(d, k, v) ==
    [j \in (DOMAIN d) \cup {k} |-> IF j = k THEN v ELSE d[j]]

\* card.get("id"): None when the key is missing
CardId(card) == IF "id" \in DOMAIN card.mp THEN card.mp["id"] ELSE Null

\* A field name is the sequence of its dot-separated segments:
\* <<"quiz_state", "progress">> is "quiz_state.progress".
HasDot(field_name) == Len(field_name) > 1
Parent(field_name) == field_name[1]
Child(field_name) == field_name[2]

----------------------------------------------------------------------------
(* bulk_set_state                                                          *)

\* index of the first dict card of updated_flashcards whose id equals id, 0 if none
FindCard(updated_flashcards, id) ==
    LET hits == {i \in 1..Len(updated_flashcards) :
                    /\ IsDict(updated_flashcards[i])
                    /\ CardId(updated_flashcards[i]) = id}
    IN  IF hits = {} THEN 0 ELSE CHOOSE i \in hits : \A j \in hits : i <= j

\* UpsertCard without the search for an existing card: every record is appended
UpsertCardAppend(updated_flashcards, new_card) ==
    IF ~IsDict(new_card) THEN updated_flashcards
    ELSE Append(updated_flashcards, new_card)

\* UpsertCard storing the incoming record in place of the card it matches
UpsertCardReplace(updated_flashcards, new_card) ==
    IF ~IsDict(new_card) THEN updated_flashcards
    ELSE LET i == FindCard(updated_flashcards, CardId(new_card))
         IN  IF i # 0 THEN [updated_flashcards EXCEPT ![i] = new_card]
             ELSE Append(updated_flashcards, new_card)

\* the body of the loop over the incoming cards, for one new_card
UpsertCard(updated_flashcards, new_card) ==
    IF ~IsDict(new_card) THEN updated_flashcards
    ELSE LET i == FindCard(updated_flashcards, CardId(new_card))
         IN  IF i # 0
             THEN [updated_flashcards EXCEPT
                      ![i] = Dict(DictMerge(updated_flashcards[i].mp, new_card.mp))]
             ELSE Append(updated_flashcards, new_card)

RECURSIVE UpsertCards(_, _)
UpsertCards(updated_flashcards, value) ==
    IF value = <<>> THEN updated_flashcards
    ELSE UpsertCards(UpsertCard(updated_flashcards, Head(value)), Tail(value))

\* what one update appends to merged_updates, and whether it raised
Emit(pairs) == [ok |-> TRUE, out |-> pairs]
Raise == [ok |-> FALSE, out |-> <<>>]

\* a nested update "parent.child": nothing is appended when the parent is
\* not a mapping; {**parent_value[child], **value} is a TypeError when the
\* existing child is not a mapping
DottedUpdate(st, field_name, value) ==
    LET parent == Parent(field_name)
        child == Child(field_name)
        parent_value == IF parent \in DOMAIN st THEN st[parent] ELSE Dict(<<>>)
    IN  IF ~IsDict(parent_value) THEN Emit(<<>>)
        ELSE IF IsDict(value) /\ child \in DOMAIN parent_value.mp
        THEN IF IsDict(parent_value.mp[child])
             THEN Emit(<< <<parent,
                     Dict(DictSet(parent_value.mp, child,
                            Dict(DictMerge(parent_value.mp[child].mp, value.mp))))>> >>)
             ELSE Raise
        ELSE Emit(<< <<parent, Dict(DictSet(parent_value.mp, child, value))>> >>)

\* MappingUpdate without the merge: the incoming mapping replaces the field
MappingUpdateReplace(st, f, value) == Emit(<< <<f, value>> >>)

\* a mapping offered for a top-level field
MappingUpdate(st, f, value) ==
    IF f \in DOMAIN st /\ IsDict(st[f])
    THEN Emit(<< <<f, Dict(DictMerge(st[f].mp, value.mp))>> >>)
    ELSE Emit(<< <<f, value>> >>)

\* a value that is not a mapping offered for flashcard_states
CardsUpdate(st, f, value) ==
    IF ~IsList(value) THEN Emit(<<>>)
    ELSE LET current_flashcards ==
                 IF f \in DOMAIN st /\ IsList(st[f]) THEN st[f].ls ELSE <<>>
         IN  Emit(<< <<f, List(UpsertCards(current_flashcards, value.ls))>> >>)

\* one iteration of the loop of bulk_set_state, for the update (field_name, value)
MergeUpdate(st, field_name, value) ==
    IF HasDot(field_name) THEN DottedUpdate(st, field_name, value)
    ELSE IF IsDict(value) THEN MappingUpdate(st, field_name[1], value)
    ELSE IF field_name[1] = "flashcard_states" THEN CardsUpdate(st, field_name[1], value)
    ELSE Emit(<< <<field_name[1], value>> >>)

\* BulkLoop merging each update onto the result of the updates before it
RECURSIVE BulkLoopCumulative(_, _, _, _)
BulkLoopCumulative(st, updates, i, merged_updates) ==
    IF i > Len(updates) THEN Emit(merged_updates)
    ELSE LET r == MergeUpdate(st, updates[i][1], updates[i][2])
             st2 == IF r.out = <<>> THEN st
                    ELSE [f \in (DOMAIN st) \cup {r.out[1][1]} |->
                            IF f = r.out[1][1] THEN r.out[1][2] ELSE st[f]]
         IN  IF ~r.ok THEN Raise
             ELSE BulkLoopCumulative(st2, updates, i + 1, merged_updates \o r.out)

\* the loop of bulk_set_state from update number i on; merged_updates is the
\* list built so far.  An exception ends the call without a result.
RECURSIVE BulkLoop(_, _, _, _)
BulkLoop(st, updates, i, merged_updates) ==
    IF i > Len(updates) THEN Emit(merged_updates)
    ELSE LET r == MergeUpdate(st, updates[i][1], updates[i][2])
         IN  IF ~r.ok THEN Raise
             ELSE BulkLoop(st, updates, i + 1, merged_updates \o r.out)

bulk_set_state(st, updates) == BulkLoop(st, updates, 1, <<>>)

----------------------------------------------------------------------------
(* The flashcard repository and populate_flashcards                        *)

\* the rows of the flashcards table: (id, topic_id, question, marking_criteria)
Flashcards ==
    << <<1, 2, "q1", "m1">>, <<2, 2, "q2", "m2">>, <<3, 2, "q3", "m3">>,
       <<4, 1, "q4", "m4">>, <<5, 1, "q5", "m5">> >>

\* SELECT ... WHERE topic_id = ?: the rows of the topic in table order.  The
\* driver binds None, numbers and text only; any other value raises.
RECURSIVE SelectByTopic(_, _)
SelectByTopic(rows, topic_id) ==
    IF rows = <<>> THEN <<>>
    ELSE (IF topic_id = Num(Head(rows)[2]) THEN <<Head(rows)>> ELSE <<>>)
            \o SelectByTopic(Tail(rows), topic_id)

get_flashcards_by_topic_id(topic_id) ==
    IF IsDict(topic_id) \/ IsList(topic_id)
    THEN [ok |-> FALSE, rows |-> <<>>]
    ELSE [ok |-> TRUE, rows |-> SelectByTopic(Flashcards, topic_id)]

\* the state entry populate_flashcards creates for one row
NewCard(row, status) ==
    Dict([k \in {"id", "status", "question", "marking_criteria",
                 "attempts", "user_answers", "evaluation"} |->
            CASE k = "id" -> Num(row[1])
              [] k = "status" -> Str(status)
              [] k = "question" -> Str(row[3])
              [] k = "marking_criteria" -> Str(row[4])
              [] k = "attempts" -> Num(0)
              [] k = "user_answers" -> List(<<>>)
              [] k = "evaluation" -> Null])

\* populate_flashcards marking the last entry active, not the first
populate_flashcardsLastActive(topic_id) ==
    LET r == get_flashcards_by_topic_id(topic_id)
    IN  IF ~r.ok THEN [ok |-> FALSE, cards |-> <<>>]
        ELSE [ok |-> TRUE,
              cards |-> [i \in 1..Len(r.rows) |->
                            NewCard(r.rows[i],
                                    IF i = Len(r.rows) THEN "active" ELSE "queued")]]

populate_flashcards(topic_id) ==
    LET r == get_flashcards_by_topic_id(topic_id)
    IN  IF ~r.ok THEN [ok |-> FALSE, cards |-> <<>>]
        ELSE [ok |-> TRUE,
              cards |-> [i \in 1..Len(r.rows) |->
                            NewCard(r.rows[i], IF i = 1 THEN "active" ELSE "queued")]]

----------------------------------------------------------------------------
(* execute_plan                                                            *)

\* current_state.update(updated_values): the pairs are stored in list order
RECURSIVE StateUpdate(_, _)
StateUpdate(st, updated_values) ==
    IF updated_values = <<>> THEN st
    ELSE StateUpdate(DictSet(st, Head(updated_values)[1], Head(updated_values)[2]),
                     Tail(updated_values))

\* what one step does to the working state, or the exception that ends the call
Done(st, emitted) == [ok |-> TRUE, st |-> st, emitted |-> emitted]
Fail(st) == [ok |-> FALSE, st |-> st, emitted |-> <<>>]

\* tool_name == "bulk_set_state"
ExecBulk(current_state, tool_input) ==
    LET updated_values == bulk_set_state(current_state, tool_input)
    IN  IF ~updated_values.ok THEN Fail(current_state)
        ELSE Done(StateUpdate(current_state, updated_values.out), updated_values.out)

\* tool_name == "populate_flashcards": tool_input[0] of an empty list and a
\* failing database call raise; an empty result leaves the field as it is
ExecPopulate(current_state, tool_input) ==
    IF tool_input = <<>> THEN Fail(current_state)
    ELSE LET flashcard_states == populate_flashcards(tool_input[1][2])
         IN  IF ~flashcard_states.ok THEN Fail(current_state)
             ELSE IF flashcard_states.cards # <<>>
             THEN Done(DictSet(current_state, "flashcard_states",
                               List(flashcard_states.cards)), <<>>)
             ELSE Done(current_state, <<>>)

\* ExecStep handing every tool but populate_flashcards to bulk_set_state
ExecStepAnyToolSets(current_state, step) ==
    IF step.tool = "populate_flashcards"
    THEN ExecPopulate(current_state, step.tool_input)
    ELSE ExecBulk(current_state, step.tool_input)

\* the body of the loop over the steps, for one step
ExecStep(current_state, step) ==
    IF step.tool = "bulk_set_state" THEN ExecBulk(current_state, step.tool_input)
    ELSE IF step.tool = "populate_flashcards"
    THEN ExecPopulate(current_state, step.tool_input)
    ELSE Done(current_state, <<>>)

\* the record kept of one processed step
CallRecord(current_state, step, r) ==
    [tool |-> step.tool, tool_input |-> step.tool_input, before |-> current_state,
     ok |-> r.ok, emitted |-> r.emitted, after |-> r.st]

\* RunSteps running every step on the state the call received
RECURSIVE RunStepsStale(_, _, _, _)
RunStepsStale(current_state, steps, i, log) ==
    IF i > Len(steps) THEN [ok |-> TRUE, st |-> current_state, log |-> log]
    ELSE LET received == IF log = <<>> THEN current_state ELSE log[1].before
             r == ExecStep(received, steps[i])
             log2 == Append(log, CallRecord(received, steps[i], r))
         IN  IF ~r.ok THEN [ok |-> FALSE, st |-> current_state, log |-> log2]
             ELSE RunStepsStale(r.st, steps, i + 1, log2)

\* the loop of execute_plan from step number i on
RECURSIVE RunSteps(_, _, _, _)
RunSteps(current_state, steps, i, log) ==
    IF i > Len(steps) THEN [ok |-> TRUE, st |-> current_state, log |-> log]
    ELSE LET r == ExecStep(current_state, steps[i])
             log2 == Append(log, CallRecord(current_state, steps[i], r))
         IN  IF ~r.ok THEN [ok |-> FALSE, st |-> current_state, log |-> log2]
             ELSE RunSteps(r.st, steps, i + 1, log2)

execute_plan(st, steps) == RunSteps(st, steps, 1, <<>>)

----------------------------------------------------------------------------
(* evaluate and the router                                                 *)

IsStr(v) == DOMAIN v = {"st"}
IsNum(v) == DOMAIN v = {"nm"}

\* the truth value Python gives a value in `not v`
Truthy(v) ==
    CASE IsList(v) -> v.ls # <<>>
      [] IsDict(v) -> DOMAIN v.mp # {}
      [] IsStr(v) -> v.st # ""
      [] IsNum(v) -> v.nm # 0
      [] OTHER -> FALSE

\* next(i for i, card in enumerate(cards) if card["status"] == "active"):
\* idx is 0 for None; an entry without a status examined before the first
\* active one raises
RECURSIVE ActiveIndex(_, _)
ActiveIndex(cards, i) ==
    IF i > Len(cards) THEN [ok |-> TRUE, err |-> "", idx |-> 0]
    ELSE IF ~IsDict(cards[i]) THEN [ok |-> FALSE, err |-> "TypeError", idx |-> 0]
    ELSE IF "status" \notin DOMAIN cards[i].mp
    THEN [ok |-> FALSE, err |-> "KeyError", idx |-> 0]
    ELSE IF cards[i].mp["status"] = Str("active") THEN [ok |-> TRUE, err |-> "", idx |-> i]
    ELSE ActiveIndex(cards, i + 1)

\* the verdicts of the evaluator chain; score is in tenths
EvaluationResults ==
    { [result |-> "correct", score |-> 9],
      [result |-> "partial", score |-> 5],
      [result |-> "incorrect", score |-> 1] }

\* the record stored as the evaluation of the active card
Evaluation(evaluation_result) ==
    Dict([k \in {"result", "score", "feedback"} |->
            CASE k = "result" -> Str(evaluation_result.result)
              [] k = "score" -> Num(evaluation_result.score)
              [] k = "feedback" -> Str("feedback")])

NewScore == Dict([k \in {"correct", "incorrect", "total_attempts"} |-> Num(0)])

\* score.get(k, 0)
Counter(score, k) == IF k \in DOMAIN score.mp THEN score.mp[k] ELSE Num(0)

\* ScoreUpdate counting the attempt and not the verdict
ScoreUpdateTotalOnly(score, result) ==
    [ok |-> TRUE,
     score |-> Dict(DictSet(score.mp, "total_attempts",
                            Num(Counter(score, "total_attempts").nm + 1)))]

\* the counters after one verdict; a counter that is not a number raises
\* after the counters before it were stored
ScoreUpdate(score, result) ==
    LET total == Counter(score, "total_attempts")
    IN  IF ~IsNum(total) THEN [ok |-> FALSE, score |-> score]
        ELSE LET counted == Dict(DictSet(score.mp, "total_attempts", Num(total.nm + 1)))
             IN  IF result \notin {"correct", "incorrect"}
                 THEN [ok |-> TRUE, score |-> counted]
                 ELSE IF ~IsNum(Counter(counted, result))
                 THEN [ok |-> FALSE, score |-> counted]
                 ELSE [ok |-> TRUE,
                       score |-> Dict(DictSet(counted.mp, result,
                                              Num(Counter(counted, result).nm + 1)))]

\* an exception raised before the evaluator chain is built
Rejected(st, kind) ==
    [ok |-> FALSE, err |-> kind, invoked |-> FALSE, st |-> st, input |-> st]

\* the end of evaluate, from the call of the evaluator chain on.
\* current_state is a shallow copy of the state received: the list of
\* cards and the score mapping are the objects of the caller, so `input`,
\* the value the caller holds after the call, has the card replaced in its
\* list and the counters stored in its score.
Evaluated(st, cards, active_index, evaluation_result) ==
    LET updated_flashcard ==
            Dict(DictSet(cards[active_index].mp, "evaluation",
                         Evaluation(evaluation_result)))
        stored == DictSet(st, "flashcard_states",
                          List([cards EXCEPT ![active_index] = updated_flashcard]))
        shared == "score" \in DOMAIN st
        score == IF shared THEN st["score"] ELSE NewScore
    IN  IF ~IsDict(score)
        THEN [ok |-> FALSE, err |-> "AttributeError", invoked |-> TRUE,
              st |-> st, input |-> stored]
        ELSE LET counted == ScoreUpdate(score, evaluation_result.result)
                 current_state == DictSet(stored, "score", counted.score)
             IN  [ok |-> counted.ok,
                  err |-> IF counted.ok THEN "" ELSE "TypeError",
                  invoked |-> TRUE,
                  st |-> IF counted.ok THEN current_state ELSE st,
                  input |-> IF shared THEN current_state ELSE stored]

\* evaluate without the check that the active card has an answer
evaluateUnchecked(st, evaluation_result) ==
    IF "flashcard_states" \notin DOMAIN st THEN Rejected(st, "KeyError")
    ELSE
    LET flashcard_states == st["flashcard_states"]
        \* enumerate() of a mapping yields its keys, which are text
        found == IF IsList(flashcard_states) THEN ActiveIndex(flashcard_states.ls, 1)
                 ELSE IF (IsDict(flashcard_states) \/ IsStr(flashcard_states))
                          /\ ~Truthy(flashcard_states)
                 THEN [ok |-> TRUE, err |-> "", idx |-> 0]
                 ELSE [ok |-> FALSE, err |-> "TypeError", idx |-> 0]
    IN  IF ~found.ok THEN Rejected(st, found.err)
        ELSE IF found.idx = 0 THEN Rejected(st, "ValueError")
        ELSE
        LET active_flashcard == flashcard_states.ls[found.idx].mp
        IN  IF "user_answers" \notin DOMAIN active_flashcard THEN Rejected(st, "KeyError")
            ELSE IF IsNum(active_flashcard["user_answers"]) THEN Rejected(st, "TypeError")
            ELSE IF IsDict(active_flashcard["user_answers"]) THEN Rejected(st, "KeyError")
            ELSE IF {"question", "marking_criteria"} \ DOMAIN active_flashcard # {}
            THEN Rejected(st, "KeyError")
            ELSE Evaluated(st, flashcard_states.ls, found.idx, evaluation_result)

evaluate(st, evaluation_result) ==
    IF "flashcard_states" \notin DOMAIN st THEN Rejected(st, "KeyError")
    ELSE
    LET flashcard_states == st["flashcard_states"]
        \* enumerate() of a mapping yields its keys, which are text
        found == IF IsList(flashcard_states) THEN ActiveIndex(flashcard_states.ls, 1)
                 ELSE IF (IsDict(flashcard_states) \/ IsStr(flashcard_states))
                          /\ ~Truthy(flashcard_states)
                 THEN [ok |-> TRUE, err |-> "", idx |-> 0]
                 ELSE [ok |-> FALSE, err |-> "TypeError", idx |-> 0]
    IN  IF ~found.ok THEN Rejected(st, found.err)
        ELSE IF found.idx = 0 THEN Rejected(st, "ValueError")
        ELSE
        LET active_flashcard == flashcard_states.ls[found.idx].mp
        IN  IF "user_answers" \notin DOMAIN active_flashcard THEN Rejected(st, "KeyError")
            ELSE IF ~Truthy(active_flashcard["user_answers"]) THEN Rejected(st, "ValueError")
            ELSE IF IsNum(active_flashcard["user_answers"]) THEN Rejected(st, "TypeError")
            ELSE IF IsDict(active_flashcard["user_answers"]) THEN Rejected(st, "KeyError")
            ELSE IF {"question", "marking_criteria"} \ DOMAIN active_flashcard # {}
            THEN Rejected(st, "KeyError")
            ELSE Evaluated(st, flashcard_states.ls, found.idx, evaluation_result)

\* route_to_evaluation_or_response without the branch for a bare text
route_to_evaluation_or_responseMappingOnly(st) ==
    LET quiz_state == IF "quiz_state" \in DOMAIN st THEN st["quiz_state"] ELSE Null
    IN  IF IsDict(quiz_state) /\ "state" \in DOMAIN quiz_state.mp
           /\ quiz_state.mp["state"] = Str("awaiting_evaluation")
        THEN "evaluator" ELSE "responder"

\* the conditional edge after the executor
route_to_evaluation_or_response(st) ==
    LET quiz_state == IF "quiz_state" \in DOMAIN st THEN st["quiz_state"] ELSE Null
    IN  IF IsDict(quiz_state)
        THEN IF "state" \in DOMAIN quiz_state.mp
                /\ quiz_state.mp["state"] = Str("awaiting_evaluation")
             THEN "evaluator" ELSE "responder"
        ELSE IF IsStr(quiz_state) /\ quiz_state = Str("awaiting_evaluation")
        THEN "evaluator" ELSE "responder"

----------------------------------------------------------------------------
(* The plan parser.  A text is the sequence of its lexemes: the line       *)
(* break, the words "Plan:" and "#E", the punctuation the parser and the   *)
(* JSON decoder look at, blanks, and words and JSON literals taken whole.  *)

NL == "\n"
HE == "#E"
\* the prefix "Plan: " of a plan group: the word and the blank after it
PLAN == <<"Plan:", " ">>

\* the JSON literals of the texts and the values they decode to
QS == "{\"state\": \"awaiting_evaluation\"}"
CARD == "{\"id\": 1}"
Literals ==
    (QS :> Dict("state" :> Str("awaiting_evaluation")))
        @@ (CARD :> Dict("id" :> Num(1)))
        @@ ("1" :> Num(1))
        @@ ("null" :> Null)

IsSpace(t) == t \in {" ", NL}

\* str.strip()
RECURSIVE LStrip(_)
LStrip(s) == IF s # <<>> /\ IsSpace(Head(s)) THEN LStrip(Tail(s)) ELSE s

RECURSIVE RStrip(_)
RStrip(s) ==
    IF s # <<>> /\ IsSpace(s[Len(s)]) THEN RStrip(SubSeq(s, 1, Len(s) - 1)) ELSE s

Strip(s) == RStrip(LStrip(s))

\* the text of a sequence of lexemes
RECURSIVE Join(_)
Join(s) == IF s = <<>> THEN "" ELSE Head(s) \o Join(Tail(s))

\* str.find(t), counted from 1: 0 when t does not occur
IndexOf(s, t) ==
    LET hits == {i \in 1..Len(s) : s[i] = t}
    IN  IF hits = {} THEN 0 ELSE CHOOSE i \in hits : \A j \in hits : i <= j

\* str.split(t)
RECURSIVE Split(_, _)
Split(s, t) ==
    LET i == IndexOf(s, t)
    IN  IF i = 0 THEN <<s>>
        ELSE <<SubSeq(s, 1, i - 1)>> \o Split(SubSeq(s, i + 1, Len(s)), t)

\* str.startswith(prefix)
StartsWith(s, prefix) ==
    Len(s) >= Len(prefix) /\ SubSeq(s, 1, Len(prefix)) = prefix

\* str.split(sep) for a separator of several lexemes
RECURSIVE SplitOn(_, _)
SplitOn(s, sep) ==
    LET hits == {i \in 1..Len(s) : StartsWith(SubSeq(s, i, Len(s)), sep)}
    IN  IF hits = {} THEN <<s>>
        ELSE LET i == CHOOSE h \in hits : \A j \in hits : h <= j
             IN  <<SubSeq(s, 1, i - 1)>>
                     \o SplitOn(SubSeq(s, i + Len(sep), Len(s)), sep)

\* the position of the first lexeme of s from i on that is not a blank
RECURSIVE SkipSpace(_, _)
SkipSpace(s, i) == IF i <= Len(s) /\ IsSpace(s[i]) THEN SkipSpace(s, i + 1) ELSE i

\* json.loads: a literal, or a list of values in brackets separated by
\* commas; anything else, and text after the value, is a JSONDecodeError
NoValue == [ok |-> FALSE, val |-> Null, next |-> 0]

RECURSIVE JsonValue(_, _)
RECURSIVE JsonElements(_, _, _)

JsonValue(s, i) ==
    LET j == SkipSpace(s, i)
    IN  IF j > Len(s) THEN NoValue
        ELSE IF s[j] \in DOMAIN Literals
        THEN [ok |-> TRUE, val |-> Literals[s[j]], next |-> j + 1]
        ELSE IF s[j] = "["
        THEN LET k == SkipSpace(s, j + 1)
             IN  IF k <= Len(s) /\ s[k] = "]"
                 THEN [ok |-> TRUE, val |-> List(<<>>), next |-> k + 1]
                 ELSE JsonElements(s, j + 1, <<>>)
        ELSE NoValue

JsonElements(s, i, elements) ==
    LET e == JsonValue(s, i)
    IN  IF ~e.ok THEN NoValue
        ELSE LET k == SkipSpace(s, e.next)
             IN  IF k > Len(s) THEN NoValue
                 ELSE IF s[k] = ","
                 THEN JsonElements(s, k + 1, Append(elements, e.val))
                 ELSE IF s[k] = "]"
                 THEN [ok |-> TRUE, val |-> List(Append(elements, e.val)), next |-> k + 1]
                 ELSE NoValue

json_loads(s) ==
    LET r == JsonValue(s, 1)
    IN  IF r.ok /\ SkipSpace(s, r.next) > Len(s)
        THEN [ok |-> TRUE, val |-> r.val]
        ELSE [ok |-> FALSE, val |-> Null]

\* the field name a key is for bulk_set_state: the text before the first
\* dot and the text after it
FieldName(key) ==
    LET i == IndexOf(key, ".")
    IN  IF i = 0 THEN <<Join(key)>>
        ELSE <<Join(SubSeq(key, 1, i - 1)), Join(SubSeq(key, i + 1, Len(key)))>>

\* OnlyDicts keeping every entry
OnlyDictsKeepAll(q) == q

\* [card for card in parsed_value if isinstance(card, dict)]
OnlyDicts(q) == SelectSeq(q, IsDict)

\* the body of the loop of parse_tool_input for one item: the pair it
\* appends, if any, and the exception that leaves the body.  An item
\* without "=" cannot be unpacked into key and value.
Appended(pairs) == [raised |-> "", pairs |-> pairs]

ParseItem(item) ==
    LET i == IndexOf(item, "=")
    IN  IF i = 0 THEN [raised |-> "ValueError", pairs |-> <<>>]
        ELSE
        LET key == Strip(SubSeq(item, 1, i - 1))
            value == Strip(SubSeq(item, i + 1, Len(item)))
            parsed_value == json_loads(value)
        IN  IF parsed_value.ok
            THEN IF Join(key) = "flashcard_states"
                 THEN IF ~IsList(parsed_value.val) THEN Appended(<<>>)
                      ELSE Appended(<< <<FieldName(key),
                                         List(OnlyDicts(parsed_value.val.ls))>> >>)
                 ELSE Appended(<< <<FieldName(key), parsed_value.val>> >>)
            ELSE IF Join(key) = "flashcard_states" THEN Appended(<<>>)
                 ELSE Appended(<< <<FieldName(key), Str(Join(value))>> >>)

\* the loop over the items: a ValueError is caught and the loop goes on,
\* any other exception leaves parse_tool_input
RECURSIVE ParseItems(_)
ParseItems(items) ==
    IF items = <<>> THEN [ok |-> TRUE, updates |-> <<>>]
    ELSE IF Strip(Head(items)) = <<>> THEN ParseItems(Tail(items))
    ELSE LET first == ParseItem(Strip(Head(items)))
             rest == ParseItems(Tail(items))
         IN  IF first.raised \notin {"", "ValueError"}
             THEN [ok |-> FALSE, updates |-> <<>>]
             ELSE [ok |-> rest.ok, updates |-> first.pairs \o rest.updates]

parse_tool_input(input_str) == ParseItems(Split(Strip(input_str), ";"))

\* the scan for the "]" at which the bracket count returns to 0, from
\* position i on: 0 when there is none
RECURSIVE MatchingBracket(_, _, _)
MatchingBracket(tool_part, i, bracket_count) ==
    IF i > Len(tool_part) THEN 0
    ELSE IF tool_part[i] = "[" THEN MatchingBracket(tool_part, i + 1, bracket_count + 1)
    ELSE IF tool_part[i] = "]"
    THEN IF bracket_count - 1 = 0 THEN i
         ELSE MatchingBracket(tool_part, i + 1, bracket_count - 1)
    ELSE MatchingBracket(tool_part, i + 1, bracket_count)

NoStep == [ok |-> TRUE, steps |-> <<>>]

\* except Exception: continue -- the steps of a body of a loop that an
\* exception may have left
Caught(body) == IF body.ok THEN body.steps ELSE <<>>

\* the body of the loop over the steps of a plan group, for one step: the
\* step it appends, if any; ok is FALSE when an exception leaves the body
ParseStep(plan_description, step_text) ==
    LET eq == IndexOf(step_text, "=")
    IN  IF eq = 0 THEN NoStep
        ELSE
        LET step_id == "E" \o Join(Strip(SubSeq(step_text, 1, eq - 1)))
            tool_part == Strip(SubSeq(step_text, eq + 1, Len(step_text)))
            tool_name_end == IndexOf(tool_part, "[")
        IN  IF tool_name_end = 0 THEN NoStep
            ELSE
            LET tool_name == Join(Strip(SubSeq(tool_part, 1, tool_name_end - 1)))
                end_idx == MatchingBracket(tool_part, tool_name_end, 0)
                updates == parse_tool_input(Strip(SubSeq(tool_part, tool_name_end + 1,
                                                         end_idx - 1)))
            IN  IF end_idx = 0 THEN NoStep
                ELSE IF ~updates.ok THEN [ok |-> FALSE, steps |-> <<>>]
                ELSE [ok |-> TRUE,
                      steps |-> <<[description |-> plan_description,
                                   step_id |-> step_id,
                                   tool |-> tool_name,
                                   tool_input |-> updates.updates]>>]

\* ParseSteps giving up the rest of a plan group at a step it cannot parse
RECURSIVE ParseStepsUntilBad(_, _)
ParseStepsUntilBad(plan_description, parts) ==
    IF parts = <<>> THEN NoStep
    ELSE LET first == ParseStep(plan_description, Head(parts))
         IN  IF ~first.ok \/ first.steps = <<>> THEN NoStep
             ELSE [ok |-> TRUE,
                   steps |-> first.steps
                                \o ParseStepsUntilBad(plan_description, Tail(parts)).steps]

\* the loop over the steps of a plan group: an exception of a step is
\* caught and the loop goes on
RECURSIVE ParseSteps(_, _)
ParseSteps(plan_description, parts) ==
    IF parts = <<>> THEN NoStep
    ELSE [ok |-> TRUE,
          steps |-> Caught(ParseStep(plan_description, Head(parts)))
                        \o ParseSteps(plan_description, Tail(parts)).steps]

\* the body of the loop over the plan groups, for one group
ParseSection(section) ==
    IF Strip(section) = <<>> THEN NoStep
    ELSE LET parts == SplitOn(section, <<NL, HE>>)
             head == Strip(parts[1])
             plan_description ==
                 IF StartsWith(head, PLAN)
                 THEN Strip(SubSeq(head, Len(PLAN) + 1, Len(head)))
                 ELSE head
         IN  ParseSteps(Join(plan_description), Tail(parts))

RECURSIVE ParseSections(_)
ParseSections(plan_sections) ==
    IF plan_sections = <<>> THEN NoStep
    ELSE [ok |-> TRUE,
          steps |-> Caught(ParseSection(Head(plan_sections)))
                        \o ParseSections(Tail(plan_sections)).steps]

\* parse_llm_plan_response with a split of a step that is not guarded: a
\* step without "=" or without "[" raises out of the parser
parse_llm_plan_responseUnguarded(response_content) ==
    LET fragments == SplitOn(response_content, <<NL, HE>>)
    IN  [ok |-> \A k \in 2..Len(fragments) :
                    /\ IndexOf(fragments[k], "=") # 0
                    /\ IndexOf(fragments[k], "[") # 0,
         plans |-> ParseSections(SplitOn(response_content, <<NL>> \o PLAN)).steps]

parse_llm_plan_response(response_content) ==
    [ok |-> TRUE,
     plans |-> ParseSections(SplitOn(response_content, <<NL>> \o PLAN)).steps]

----------------------------------------------------------------------------
(* Bounds and input sets                                                   *)

MaxUpdates == 2      \* updates of the mapping fields in one bulk_set_state step
MaxIncoming == 2     \* cards in one incoming flashcard_states value
MaxSteps == 3        \* steps in one plan
MaxEvalSteps == 1    \* steps in one plan of a session with evaluations
MaxAttempts == 2     \* evaluations counted in one session
MaxPieces == 3       \* plan headers and steps after the first header of a reply
MaxItems == 2        \* items in the tool input of a step

\* all sequences over S of length 0..n
SeqsUpTo(S, n) == UNION {[1..k -> S] : k \in 0..n}

Step(tool_name, tool_input) == [tool |-> tool_name, tool_input |-> tool_input]

\* updates of the mapping fields quiz_state and session
QuizUpdates ==
    { <<<<"quiz_state">>, Dict("state" :> Str("awaiting_answer"))>>,
      <<<<"quiz_state">>, Dict("progress" :> Num(1))>>,
      <<<<"quiz_state">>, Str("idle")>>,
      <<<<"quiz_state", "state">>, Str("idle")>>,
      <<<<"quiz_state", "progress">>, Num(0)>>,
      <<<<"quiz_state", "state">>, Dict("hint" :> Num(1))>> }

SessionUpdates ==
    { <<<<"session">>, Dict("metadata" :> Dict("start" :> Num(1)))>>,
      <<<<"session", "metadata">>, Dict("end" :> Num(2))>> }

\* incoming flashcard records: two partial records of card 1, one of card 2
\* and one without an id
IncomingCards ==
    { Dict(("id" :> Num(1)) @@ ("status" :> Str("active"))),
      Dict(("id" :> Num(1)) @@ ("attempts" :> Num(1))),
      Dict(("id" :> Num(2)) @@ ("status" :> Str("queued"))),
      Dict("status" :> Str("queued")) }

\* values offered for flashcard_states that are not sequences
NonSequences == { Str("x"), Null, Dict("id" :> Num(1)) }

\* a sequence with an entry that is not a record
MalformedCards == List(<<Str("x"), Dict(("id" :> Num(2)) @@ ("status" :> Str("queued")))>>)

CardUpdates ==
    { <<<<"flashcard_states">>, List(q)>> : q \in SeqsUpTo(IncomingCards, MaxIncoming) }
        \cup { <<<<"flashcard_states">>, v>> : v \in NonSequences \cup {MalformedCards} }

\* one-step plans whose step reconciles mapping fields
ReconcilePlans ==
    { <<Step("bulk_set_state", u)>> :
        u \in SeqsUpTo(QuizUpdates \cup SessionUpdates
                          \cup { <<<<"flashcard_states">>, Dict("id" :> Num(1))>>,
                                 <<<<"flashcard_states">>, List(<<>>)>> },
                       MaxUpdates) }

\* one-step plans whose step offers one value for flashcard_states, alone,
\* after or before an update of quiz_state
CardPlans ==
    LET other == { <<>>, << <<<<"quiz_state", "state">>, Str("idle")>> >> }
    IN  { <<Step("bulk_set_state", pre \o <<u>> \o post)>> :
            u \in CardUpdates, pre \in other, post \in other }

\* the steps of the plans of a turn, as the plan parser can produce them
PlanSteps ==
    { Step("bulk_set_state", <<<<<<"quiz_state">>, Dict("state" :> Str("awaiting_answer"))>>>>),
      Step("bulk_set_state", <<<<<<"quiz_state", "progress">>, Num(0)>>,
                               <<<<"quiz_state", "state">>, Str("idle")>>>>),
      Step("bulk_set_state", <<<<<<"quiz_state", "state">>, Dict("hint" :> Num(1))>>>>),
      Step("bulk_set_state",
           <<<<<<"flashcard_states">>,
               List(<<Dict(("id" :> Num(1)) @@ ("attempts" :> Num(1)))>>)>>>>),
      Step("populate_flashcards", <<<<<<"topic_id">>, Num(2)>>>>),
      Step("populate_flashcards", <<<<<<"topic_id">>, Num(9)>>>>),
      Step("populate_flashcards", <<>>),
      Step("update_score", <<<<<<"quiz_state">>, Str("awaiting_evaluation")>>>>),
      Step("update_score", <<>>) }

Plans == SeqsUpTo(PlanSteps, MaxSteps)

\* the steps of a quiz: the queue is filled, an answer is recorded and an
\* evaluation asked for, the planner rewrites quiz_state and the status of
\* cards
EvalSteps ==
    { Step("populate_flashcards", <<<<<<"topic_id">>, Num(2)>>>>),
      Step("bulk_set_state",
           <<<<<<"flashcard_states">>,
               List(<<Dict(("id" :> Num(1)) @@ ("user_answers" :> List(<<Str("a")>>)))>>)>>,
             <<<<"quiz_state">>, Dict("state" :> Str("awaiting_evaluation"))>>>>),
      Step("bulk_set_state", <<<<<<"quiz_state">>, Str("awaiting_evaluation")>>>>),
      Step("bulk_set_state", <<<<<<"quiz_state">>, Str("idle")>>>>),
      Step("bulk_set_state", <<<<<<"quiz_state">>, Null>>>>),
      Step("bulk_set_state", <<<<<<"quiz_state", "state">>, Str("awaiting_answer")>>>>),
      Step("bulk_set_state",
           <<<<<<"flashcard_states">>,
               List(<<Dict(("id" :> Num(2)) @@ ("status" :> Str("active")))>>)>>>>),
      Step("bulk_set_state",
           <<<<<<"flashcard_states">>,
               List(<<Dict(("id" :> Num(1)) @@ ("status" :> Str("queued")))>>)>>>>) }

EvalPlans == SeqsUpTo(EvalSteps, MaxEvalSteps)

\* An item of a tool input: its text, the field its key names (none when the
\* item has no "="), whether its value is a JSON text, and the value: what
\* the text decodes to, or the text itself.
Item(text, field, decodes, value) ==
    [text |-> text, field |-> field, decodes |-> decodes, value |-> value]

CardsItem ==
    Item(<<"flashcard_states", "=", "[", CARD, "]">>,
         <<"flashcard_states">>, TRUE, List(<<Dict("id" :> Num(1))>>))
NoCardsItem ==
    Item(<<"flashcard_states", "=", "[", " ", "]">>,
         <<"flashcard_states">>, TRUE, List(<<>>))
MixedCardsItem ==
    Item(<<"flashcard_states", "=", "[", CARD, ",", " ", "1", "]">>,
         <<"flashcard_states">>, TRUE, List(<<Dict("id" :> Num(1)), Num(1)>>))
CardItem ==
    Item(<<"flashcard_states", "=", CARD>>,
         <<"flashcard_states">>, TRUE, Dict("id" :> Num(1)))
BrokenCardsItem ==
    Item(<<"flashcard_states", "=", "[", CARD, ",", "]">>,
         <<"flashcard_states">>, FALSE, Str("[{\"id\": 1},]"))
ProgressItem ==
    Item(<<" ", "quiz_state", ".", "progress", " ", "=", " ", "1", " ">>,
         <<"quiz_state", "progress">>, TRUE, Num(1))
QuizItem ==
    Item(<<"quiz_state", "=", QS>>,
         <<"quiz_state">>, TRUE, Dict("state" :> Str("awaiting_evaluation")))
TextItem == Item(<<"n", "=", "w">>, <<"n">>, FALSE, Str("w"))
WordItem == Item(<<"w">>, <<>>, FALSE, Null)
BlankItem == Item(<<" ">>, <<>>, FALSE, Null)
TopicItem == Item(<<"topic_id", "=", "1">>, <<"topic_id">>, TRUE, Num(1))

ItemSet ==
    { CardsItem, NoCardsItem, MixedCardsItem, CardItem, BrokenCardsItem,
      ProgressItem, QuizItem, TextItem, WordItem, BlankItem }

\* the text of a tool input: the items with ";" between them
RECURSIVE InputText(_)
InputText(items) ==
    IF items = <<>> THEN <<>>
    ELSE IF Len(items) = 1 THEN items[1].text
    ELSE items[1].text \o <<";">> \o InputText(Tail(items))

\* A piece of a reply: the header of a plan group, a step, or a fragment
\* that starts like a step and is none.
Header(desc) ==
    [kind |-> "plan", text |-> <<NL>> \o PLAN \o desc, desc |-> desc,
     id |-> <<>>, name |-> <<>>, items |-> <<>>]

StepPiece(id, name, items, rest) ==
    [kind |-> "step",
     text |-> <<NL, HE>> \o id \o <<"=">> \o name \o <<"[">> \o InputText(items)
                  \o <<"]">> \o rest,
     desc |-> <<>>, id |-> id, name |-> name, items |-> items]

Fragment(kind, text) ==
    [kind |-> kind, text |-> <<NL, HE>> \o text, desc |-> <<>>,
     id |-> <<>>, name |-> <<>>, items |-> <<>>]

\* the second step has brackets inside its input and text and a "]" after
\* it; the bracket count of the "open" fragment does not return to 0
PieceSet ==
    { Header(<<" ", "B", " ">>),
      StepPiece(<<"1", " ">>, <<" ", "bulk_set_state">>, <<QuizItem>>, <<>>),
      StepPiece(<<"2">>, <<"bulk_set_state", " ">>, <<CardsItem, ProgressItem>>,
                <<" ", "w", "]">>),
      StepPiece(<<"6">>, <<"populate_flashcards">>, <<>>, <<>>),
      Fragment("open", <<"3", "=", "bulk_set_state", "[", "n", "=", "[", "1", "]">>),
      Fragment("noeq", <<"4", " ", "noop">>),
      Fragment("nobracket", <<"5", "=", "noop">>) }

\* the ways a reply starts, each with the description of its first group:
\* with the prefix and the description A, with a line break before them, or
\* with the prefix and no description
Lead(text, desc) == [text |-> text, desc |-> desc]

Leads ==
    { Lead(PLAN \o <<"A", " ">>, <<"A", " ">>),
      Lead(<<NL>> \o PLAN \o <<" ", "A">>, <<" ", "A">>),
      Lead(PLAN, <<>>) }

\* the inputs of a populate_flashcards step: the topic alone, after another
\* argument, and inputs without an item that has a "="
PopulateInputs ==
    { <<TopicItem>>, <<TextItem, TopicItem>>, <<WordItem>>, <<BlankItem>> }

\* the replies of the planning model: plan groups of steps and fragments,
\* one step with the items of ItemSet, and one populate_flashcards step
Replies ==
    { [lead |-> l, pieces |-> q] : l \in Leads, q \in SeqsUpTo(PieceSet, MaxPieces) }
        \cup { [lead |-> Lead(PLAN \o <<"A">>, <<"A">>),
                pieces |-> <<StepPiece(<<"1">>, <<"bulk_set_state">>, items, <<>>)>>] :
                    items \in SeqsUpTo(ItemSet, MaxItems) }
        \cup { [lead |-> Lead(PLAN \o <<"A">>, <<"A">>),
                pieces |-> <<StepPiece(<<"1">>, <<"populate_flashcards">>, items, <<>>)>>] :
                    items \in PopulateInputs }

RECURSIVE PiecesText(_)
PiecesText(pieces) ==
    IF pieces = <<>> THEN <<>> ELSE Head(pieces).text \o PiecesText(Tail(pieces))

\* the text of a reply
ReplyText(r) == r.lead.text \o PiecesText(r.pieces)

NoReply == [lead |-> Lead(<<>>, <<>>), pieces |-> <<>>]

----------------------------------------------------------------------------
(* The workflow                                                            *)

\* the two initial session states: main() and the chat front end
InitialStates ==
    { ("quiz_state" :> Dict(("state" :> Str("waiting_for_topic")) @@ ("progress" :> Null)))
        @@ ("flashcard_states" :> List(<<>>)) @@ ("score" :> NewScore),
      ("quiz_state" :> Dict(("state" :> Str("waiting_topic")) @@ ("progress" :> Null)))
        @@ ("flashcard_states" :> Dict(<<>>)) @@ ("score" :> NewScore) }

\* the state main() invokes the graph with: the queue of topic 2, no answer yet
evaluation_state ==
    ("quiz_state" :> Dict(("state" :> Str("waiting_answer")) @@ ("progress" :> Null)))
        @@ ("flashcard_states" :> List(populate_flashcards(Num(2)).cards))
        @@ ("score" :> NewScore)

\* the states a session with evaluations starts from; the last two are
\* handed to the graph by a caller that gives no quiz_state, or no score
EvaluationStates ==
    InitialStates \cup
        { evaluation_state,
          ("flashcard_states" :> List(<<>>)) @@ ("score" :> NewScore),
          [k \in DOMAIN evaluation_state \ {"score"} |-> evaluation_state[k]] }

Init ==
    /\ state \in InitialStates
    /\ current_plan = <<>>
    /\ pc = "planner"
    /\ prev = state
    /\ calls = <<>>
    /\ raised = FALSE
    /\ evaluated = <<>>
    /\ reply = NoReply
    /\ ran = <<>>

\* a step of the graph: the nodes it starts, all on the same state
Started(nodes, input) == [nodes |-> nodes, input |-> input]

\* the planner node: the parsed reply of the planning model becomes the plan
GeneratePlan(plans) ==
    /\ pc = "planner"
    /\ \E plan \in plans : current_plan' = plan
    /\ pc' = "executor"
    /\ ran' = Append(ran, Started({"planner"}, state))
    /\ UNCHANGED <<state, prev, calls, raised, evaluated, reply>>

\* the planner node on the text of a reply: the steps parse_llm_plan_response
\* returns become the plan
PlanReply ==
    /\ pc = "planner"
    /\ \E r \in Replies :
        \E result \in {parse_llm_plan_response(ReplyText(r))} :
            /\ reply' = r
            /\ current_plan' = result.plans
            /\ pc' = IF result.ok THEN "executor" ELSE "failed"
    /\ ran' = Append(ran, Started({"planner"}, state))
    /\ UNCHANGED <<state, prev, calls, raised, evaluated>>

\* the executor node and the conditional edge that follows it: an exception
\* fails the turn and leaves the session with the state it had
ExecutePlan ==
    /\ pc = "executor"
    /\ ran' = Append(ran, Started({"executor"}, state))
    /\ LET r == execute_plan(state, current_plan)
       IN  /\ calls' = r.log
           /\ raised' = ~r.ok
           /\ state' = IF r.ok THEN r.st ELSE state
           /\ pc' = IF r.ok THEN route_to_evaluation_or_response(r.st) ELSE "failed"
    /\ UNCHANGED <<current_plan, prev, evaluated, reply>>

\* the nodes the edges out of the executor start in the next step: the
\* responder, by the edge added for it, and the node the router names, by
\* the conditional edges
AfterExecutor(next_node) == {"responder", next_node}

\* the step after the executor when the router names the evaluator.  The
\* verdict is the evaluator chain's choice; an exception fails the turn.
\* The responder is started in the same step, on the state the evaluator
\* is started on.  Both nodes return the whole state, so the step ends with
\* two values for every field: whether the graph accepts them is decided by
\* the graph library and not by this code, and when it does not, the turn
\* fails as with an exception.  The edge from the evaluator leads to the
\* responder once more.
Evaluate ==
    /\ pc = "evaluator"
    /\ ran' = Append(ran, Started(AfterExecutor(pc), state))
    /\ \E evaluation_result \in EvaluationResults, accepted \in BOOLEAN :
        LET r == evaluate(state, evaluation_result)
        IN  /\ evaluated' = <<[before |-> state, ok |-> r.ok, err |-> r.err,
                               invoked |-> r.invoked,
                               result |-> IF r.invoked THEN evaluation_result.result
                                          ELSE "",
                               after |-> r.st, input |-> r.input]>>
            /\ state' = IF r.ok /\ accepted THEN r.st ELSE prev
            /\ pc' = IF r.ok /\ accepted THEN "responder" ELSE "failed"
    /\ UNCHANGED <<current_plan, prev, calls, raised, reply>>

\* the responder node: it appends its reply to the messages, which are not
\* part of the model, and the graph reaches END
Respond ==
    /\ pc = "responder"
    /\ pc' = "end"
    /\ ran' = Append(ran, Started({"responder"}, state))
    /\ UNCHANGED <<state, current_plan, prev, calls, raised, evaluated, reply>>

\* the next message of the user starts a new turn on the stored state
NextTurn ==
    /\ pc \in {"end", "failed"}
    /\ pc' = "planner"
    /\ current_plan' = <<>>
    /\ prev' = state
    /\ calls' = <<>>
    /\ raised' = FALSE
    /\ evaluated' = <<>>
    /\ reply' = NoReply
    /\ ran' = <<>>
    /\ UNCHANGED state

\* No plan of Plans, ReconcilePlans or CardPlans asks for an evaluation: the
\* evaluator node is not reached under Spec, SpecReconcile and SpecCards.
Next == GeneratePlan(Plans) \/ ExecutePlan \/ Respond \/ NextTurn
Spec == Init /\ [][Next]_vars

NextReconcile == GeneratePlan(ReconcilePlans) \/ ExecutePlan \/ Respond \/ NextTurn
SpecReconcile == Init /\ [][NextReconcile]_vars

NextCards == GeneratePlan(CardPlans) \/ ExecutePlan \/ Respond \/ NextTurn
SpecCards == Init /\ [][NextCards]_vars

\* score["total_attempts"] of a state
TotalAttempts(st) ==
    IF "score" \in DOMAIN st /\ IsDict(st["score"])
       /\ IsNum(Counter(st["score"], "total_attempts"))
    THEN Counter(st["score"], "total_attempts").nm ELSE 0

InitEvaluate ==
    /\ state \in EvaluationStates
    /\ current_plan = <<>>
    /\ pc = "planner"
    /\ prev = state
    /\ calls = <<>>
    /\ raised = FALSE
    /\ evaluated = <<>>
    /\ reply = NoReply
    /\ ran = <<>>

\* a turn of a quiz; the session ends after MaxAttempts evaluations
PlanEvaluation ==
    /\ TotalAttempts(state) < MaxAttempts
    /\ GeneratePlan(EvalPlans)

NextEvaluate == PlanEvaluation \/ ExecutePlan \/ Evaluate \/ Respond \/ NextTurn
SpecEvaluate == InitEvaluate /\ [][NextEvaluate]_vars

\* the first turn of a session, the plan parsed from the text of a reply
NextParse == PlanReply \/ ExecutePlan \/ Evaluate \/ Respond
SpecParse == Init /\ [][NextParse]_vars

----------------------------------------------------------------------------
(* Properties of bulk_set_state, stated on the calls execute_plan made     *)

\* the calls of bulk_set_state of this turn that returned a list
ReturnedCalls ==
    {i \in 1..Len(calls) : calls[i].tool = "bulk_set_state" /\ calls[i].ok}

\* m is old with the keys of v laid over it
IsOverlay(m, old, v) ==
    /\ DOMAIN m = (DOMAIN old) \cup (DOMAIN v)
    /\ \A k \in DOMAIN v : m[k] = v[k]
    /\ \A k \in (DOMAIN old) \ (DOMAIN v) : m[k] = old[k]

\* C1: for an update (f, v) with f undotted and v a mapping, a returning
\* bulk_set_state emits (f, m): when state[f] is a mapping, m has every key
\* of v with v's value and every other key of state[f] with its old value;
\* when state[f] is absent or not a mapping, m equals v.
MappingMergeRule ==
    \A i \in ReturnedCalls :
        \A j \in 1..Len(calls[i].tool_input) :
            LET f == calls[i].tool_input[j][1]
                v == calls[i].tool_input[j][2]
                before == calls[i].before
            IN  (~HasDot(f) /\ IsDict(v)) =>
                    \E e \in 1..Len(calls[i].emitted) :
                        LET m == calls[i].emitted[e][2]
                        IN  /\ calls[i].emitted[e][1] = f[1]
                            /\ IF f[1] \in DOMAIN before /\ IsDict(before[f[1]])
                               THEN IsDict(m) /\ IsOverlay(m.mp, before[f[1]].mp, v.mp)
                               ELSE m = v

\* a mapping was merged onto a mapping that has a key the update does not name
MappingMergeWitness ==
    \E i \in ReturnedCalls :
        \E j \in 1..Len(calls[i].tool_input) :
            LET f == calls[i].tool_input[j][1]
                v == calls[i].tool_input[j][2]
                before == calls[i].before
            IN  /\ ~HasDot(f) /\ IsDict(v)
                /\ f[1] \in DOMAIN before /\ IsDict(before[f[1]])
                /\ (DOMAIN before[f[1]].mp) \ (DOMAIN v.mp) # {}
                /\ Len(calls[i].emitted) = Len(calls[i].tool_input)

\* C2: bulk_set_state never raises: every call returns a list of pairs.
ReconcileNeverRaises ==
    \A i \in 1..Len(calls) : calls[i].tool = "bulk_set_state" => calls[i].ok

\* the keys of a top-level field an update sets, each with the value it sets:
\* the child of a dotted update with a plain value, the keys of a mapping
Asks(u) ==
    IF HasDot(u[1])
    THEN IF IsDict(u[2]) THEN {} ELSE {<<u[1][1], u[1][2], u[2]>>}
    ELSE IF IsDict(u[2]) THEN {<<u[1][1], k, u[2].mp[k]>> : k \in DOMAIN u[2].mp}
    ELSE {}

\* C3: after a bulk_set_state step whose two updates set different keys of
\* the same mapping field p, p has both keys with the values set and every
\* other key it had before.
NoUpdateLost ==
    \A i \in ReturnedCalls :
        LET c == calls[i]
        IN  Len(c.tool_input) = 2 =>
            LET a1 == Asks(c.tool_input[1])
                a2 == Asks(c.tool_input[2])
                p == c.tool_input[1][1][1]
            IN  ( /\ a1 # {} /\ a2 # {}
                  /\ c.tool_input[2][1][1] = p
                  /\ {a[2] : a \in a1} \cap {a[2] : a \in a2} = {}
                  /\ p \in DOMAIN c.before /\ IsDict(c.before[p]) )
                => /\ IsDict(c.after[p])
                   /\ \A a \in a1 \cup a2 :
                        a[2] \in DOMAIN c.after[p].mp /\ c.after[p].mp[a[2]] = a[3]
                   /\ \A k \in (DOMAIN c.before[p].mp) \ {a[2] : a \in a1 \cup a2} :
                        k \in DOMAIN c.after[p].mp /\ c.after[p].mp[k] = c.before[p].mp[k]

\* C4: a dotted update (parent.child, v) on a state whose parent is absent
\* or not a mapping emits (parent, {child: v}), and a call with only this
\* update emits exactly that pair.
DottedEmitsForParent ==
    \A i \in ReturnedCalls :
        \A j \in 1..Len(calls[i].tool_input) :
            LET f == calls[i].tool_input[j][1]
                v == calls[i].tool_input[j][2]
                before == calls[i].before
            IN  (HasDot(f) /\ ~(Parent(f) \in DOMAIN before /\ IsDict(before[Parent(f)])))
                => /\ \E e \in 1..Len(calls[i].emitted) :
                        calls[i].emitted[e] = <<Parent(f), Dict(Child(f) :> v)>>
                   /\ Len(calls[i].tool_input) = 1 => Len(calls[i].emitted) = 1

\* the fields of the pairs a call emitted, in order
EmittedFields(c) == [e \in 1..Len(c.emitted) |-> c.emitted[e][1]]

\* the parents of the updates of a call that are not for flashcard_states
RECURSIVE OtherFields(_)
OtherFields(updates) ==
    IF updates = <<>> THEN <<>>
    ELSE (IF Head(updates)[1] = <<"flashcard_states">> THEN <<>>
          ELSE <<Head(updates)[1][1]>>) \o OtherFields(Tail(updates))

\* C5: in a returning call whose flashcard_states updates all offer a value
\* that is not a sequence, no pair is emitted for flashcard_states and every
\* other update of the call is emitted, in order.
NonSequenceSkipped ==
    \A i \in ReturnedCalls :
        LET c == calls[i]
        IN  (\A j \in 1..Len(c.tool_input) :
                c.tool_input[j][1] = <<"flashcard_states">> => ~IsList(c.tool_input[j][2]))
            => EmittedFields(c) = OtherFields(c.tool_input)

\* the ids of the cards of a sequence of records
IdsOf(q) == {CardId(q[n]) : n \in 1..Len(q)}

\* the incoming records that carry the id
Matching(inc, id) == {n \in 1..Len(inc) : CardId(inc[n]) = id}

\* card is base with the fields of the incoming records of the id laid over
\* it in incoming order
MergedAs(card, base, inc, id) ==
    /\ IsDict(card)
    /\ DOMAIN card.mp = (DOMAIN base) \cup UNION {DOMAIN inc[n].mp : n \in Matching(inc, id)}
    /\ \A k \in DOMAIN card.mp :
        LET having == {n \in Matching(inc, id) : k \in DOMAIN inc[n].mp}
        IN  IF having = {} THEN card.mp[k] = base[k]
            ELSE card.mp[k] = inc[CHOOSE n \in having : \A n2 \in having : n2 <= n].mp[k]

\* the first occurrences of the ids that the existing sequence does not have
FirstNew(old, inc) ==
    {n \in 1..Len(inc) :
        /\ CardId(inc[n]) \notin IdsOf(old)
        /\ \A n2 \in 1..(n - 1) : CardId(inc[n2]) # CardId(inc[n])}

\* the upsert updates of the returning calls: flashcard_states offered a
\* sequence of mapping records
UpsertUpdates ==
    {ij \in UNION {{<<i, j>> : j \in 1..Len(calls[i].tool_input)} : i \in ReturnedCalls} :
        /\ calls[ij[1]].tool_input[ij[2]][1] = <<"flashcard_states">>
        /\ IsList(calls[ij[1]].tool_input[ij[2]][2])
        /\ \A n \in 1..Len(calls[ij[1]].tool_input[ij[2]][2].ls) :
              IsDict(calls[ij[1]].tool_input[ij[2]][2].ls[n])}

\* the flashcard queue a call found in the state
ExistingCards(c) ==
    IF "flashcard_states" \in DOMAIN c.before /\ IsList(c.before["flashcard_states"])
    THEN c.before["flashcard_states"].ls ELSE <<>>

\* C6: a flashcard_states update offering a sequence of mapping records
\* emits a sequence in which every existing record keeps its index, has the
\* incoming records of its id merged onto it or is unchanged, and the new
\* ids follow in incoming order; its length is the existing length plus the
\* number of distinct new ids.
UpsertRule ==
    \A ij \in UpsertUpdates :
        LET c == calls[ij[1]]
            inc == c.tool_input[ij[2]][2].ls
            old == ExistingCards(c)
            new == FirstNew(old, inc)
        IN  \E e \in 1..Len(c.emitted) :
                /\ c.emitted[e][1] = "flashcard_states"
                /\ IsList(c.emitted[e][2])
                /\ LET m == c.emitted[e][2].ls
                   IN  /\ Len(m) = Len(old) + Cardinality(IdsOf(inc) \ IdsOf(old))
                       /\ \A x \in 1..Len(old) :
                            IF CardId(old[x]) \in IdsOf(inc)
                            THEN MergedAs(m[x], old[x].mp, inc, CardId(old[x]))
                            ELSE m[x] = old[x]
                       /\ \A n \in new :
                            MergedAs(m[Len(old) + Cardinality({n2 \in new : n2 <= n})],
                                     <<>>, inc, CardId(inc[n]))

\* an upsert merged a record onto an existing card that has a field the
\* record does not name and appended a record with a new id
UpsertWitness ==
    \E ij \in UpsertUpdates :
        LET c == calls[ij[1]]
            inc == c.tool_input[ij[2]][2].ls
            old == ExistingCards(c)
        IN  /\ \E x \in 1..Len(old) : \E n \in 1..Len(inc) :
                /\ CardId(old[x]) = CardId(inc[n])
                /\ (DOMAIN old[x].mp) \ (DOMAIN inc[n].mp) # {}
            /\ IdsOf(inc) \ IdsOf(old) # {}
            /\ c.after["flashcard_states"].ls # old

\* the turn ran one bulk_set_state step that offered the single record r
\* for flashcard_states, and the step returned
SingleUpsert(r) ==
    /\ pc \in {"responder", "end"}
    /\ Len(calls) = 1
    /\ calls[1].tool = "bulk_set_state"
    /\ calls[1].tool_input = << <<<<"flashcard_states">>, List(<<r>>)>> >>

\* C7: after the update [r] has been folded into the state, applying [r]
\* again leaves the flashcard_states sequence as it is, and the update
\* [r, r] on the state before gives the same sequence as [r].
UpsertIdempotent ==
    \A r \in IncomingCards :
        SingleUpsert(r) =>
            LET again == ExecStep(state, current_plan[1])
                twice == ExecStep(prev, Step("bulk_set_state",
                            << <<<<"flashcard_states">>, List(<<r, r>>)>> >>))
            IN  /\ again.ok /\ twice.ok
                /\ again.st["flashcard_states"] = state["flashcard_states"]
                /\ twice.st["flashcard_states"] = state["flashcard_states"]

\* a single record was upserted into a queue of two cards and changed it
UpsertIdempotentWitness ==
    \E r \in IncomingCards :
        /\ SingleUpsert(r)
        /\ IsList(prev["flashcard_states"])
        /\ Len(prev["flashcard_states"].ls) = 2
        /\ state["flashcard_states"] # prev["flashcard_states"]

\* C8: every update of a call is merged against the state the call received:
\* for every split of the updates into u1 followed by u2 the call returns
\* bulk_set_state(state, u1) followed by bulk_set_state(state, u2), and
\* raises iff one of the two does.
SnapshotSemantics ==
    \A i \in 1..Len(calls) :
        LET c == calls[i]
            n == Len(c.tool_input)
        IN  c.tool = "bulk_set_state" =>
            \A k \in 0..n :
                LET a == bulk_set_state(c.before, SubSeq(c.tool_input, 1, k))
                    b == bulk_set_state(c.before, SubSeq(c.tool_input, k + 1, n))
                IN  /\ c.ok = (a.ok /\ b.ok)
                    /\ c.ok => c.emitted = a.out \o b.out

\* a call merged two mappings with different keys onto the same field, and
\* the second emitted value has the old value under the first update's key
SnapshotWitness ==
    \E i \in ReturnedCalls :
        LET c == calls[i]
        IN  /\ Len(c.tool_input) = 2 /\ Len(c.emitted) = 2
            /\ c.tool_input[1][1] = c.tool_input[2][1]
            /\ ~HasDot(c.tool_input[1][1])
            /\ IsDict(c.tool_input[1][2]) /\ IsDict(c.tool_input[2][2])
            /\ IsDict(c.emitted[2][2])
            /\ \E k \in DOMAIN c.tool_input[1][2].mp :
                /\ k \notin DOMAIN c.tool_input[2][2].mp
                /\ k \in DOMAIN c.emitted[2][2].mp
                /\ c.emitted[2][2].mp[k] # c.tool_input[1][2].mp[k]
                /\ c.emitted[1][2].mp[k] = c.tool_input[1][2].mp[k]

----------------------------------------------------------------------------
(* Properties of execute_plan                                              *)

\* execute_plan has run in this turn
Executed == pc \in {"responder", "failed", "end"}

\* the one-step plans <<steps[1]>>, <<steps[2]>>, ... executed one after
\* another, each on the state the one before returned
RECURSIVE OneByOne(_, _)
OneByOne(r, steps) ==
    IF steps = <<>> \/ ~r.ok THEN r
    ELSE LET x == execute_plan(r.st, <<Head(steps)>>)
         IN  OneByOne([ok |-> x.ok, st |-> x.st], Tail(steps))

\* C9: execute_plan processes the steps in list order, each on the working
\* state the steps before it left, and returns what executing the one-step
\* plans one after another returns (and raises iff one of them raises).
SequentialConsistency ==
    Executed =>
        LET one == OneByOne([ok |-> TRUE, st |-> prev], current_plan)
        IN  /\ raised = ~one.ok
            /\ ~raised => state = one.st /\ Len(calls) = Len(current_plan)
            /\ \A i \in 1..Len(calls) :
                /\ calls[i].tool = current_plan[i].tool
                /\ calls[i].tool_input = current_plan[i].tool_input
                /\ calls[i].before = IF i = 1 THEN prev ELSE calls[i - 1].after

\* the last step of a plan changed a state that an earlier step had changed,
\* and on the state the call received it would have given another result
SequentialWitness ==
    /\ pc = "responder"
    /\ Len(calls) >= 2
    /\ calls[Len(calls)].before # prev
    /\ calls[Len(calls)].after # calls[Len(calls)].before
    /\ ExecStep(prev, current_plan[Len(calls)]).st # state

KnownTools == {"bulk_set_state", "populate_flashcards"}

\* C10: a step with any other tool name leaves the working state unchanged
\* and does not end the execution: the step after it runs on the same
\* state, and the call stops before the end of the plan only at a step
\* of a known tool that raised.
UnknownToolIsNoOp ==
    Executed =>
        /\ \A i \in 1..Len(calls) :
            calls[i].tool \notin KnownTools =>
                /\ calls[i].ok
                /\ calls[i].after = calls[i].before
                /\ i < Len(current_plan) =>
                    /\ Len(calls) > i
                    /\ calls[i + 1].tool = current_plan[i + 1].tool
                    /\ calls[i + 1].before = calls[i].before
        /\ Len(calls) < Len(current_plan) =>
            /\ calls # <<>>
            /\ calls[Len(calls)].tool \in KnownTools
            /\ ~calls[Len(calls)].ok

\* a plan started with an unknown tool that has arguments, and the step
\* after it changed the state
UnknownToolWitness ==
    /\ pc = "responder"
    /\ Len(calls) >= 2
    /\ calls[1].tool \notin KnownTools
    /\ calls[1].tool_input # <<>>
    /\ calls[2].tool \in KnownTools
    /\ state # prev

----------------------------------------------------------------------------
(* Properties of populate_flashcards                                       *)

\* the populate_flashcards steps of this turn that returned
PopulateCalls ==
    {i \in 1..Len(calls) : calls[i].tool = "populate_flashcards" /\ calls[i].ok}

\* the topic a populate_flashcards step names: the value of its first argument
TopicOf(i) == calls[i].tool_input[1][2]

\* C11: after a populate_flashcards step for topic t the flashcard_states
\* of the working state is populate_flashcards(t), for every topic t, also
\* one without records: nothing of the previous queue remains.
PopulateReplacesQueue ==
    \A i \in PopulateCalls :
        /\ "flashcard_states" \in DOMAIN calls[i].after
        /\ calls[i].after["flashcard_states"]
               = List(populate_flashcards(TopicOf(i)).cards)

\* C12: populate_flashcards returns one entry per row of the repository,
\* in the repository's order, with the row's id, question and
\* marking_criteria, attempts 0, no user_answers and no evaluation; the
\* first entry is active and every other entry queued, and no rows give an
\* empty result.
PopulateShape ==
    \A i \in PopulateCalls :
        LET rows == get_flashcards_by_topic_id(TopicOf(i)).rows
            cards == populate_flashcards(TopicOf(i)).cards
        IN  /\ Len(cards) = Len(rows)
            /\ \A k \in 1..Len(cards) :
                /\ IsDict(cards[k])
                /\ DOMAIN cards[k].mp = {"id", "status", "question",
                                         "marking_criteria", "attempts",
                                         "user_answers", "evaluation"}
                /\ cards[k].mp["id"] = Num(rows[k][1])
                /\ cards[k].mp["question"] = Str(rows[k][3])
                /\ cards[k].mp["marking_criteria"] = Str(rows[k][4])
                /\ cards[k].mp["attempts"] = Num(0)
                /\ cards[k].mp["user_answers"] = List(<<>>)
                /\ cards[k].mp["evaluation"] = Null
                /\ cards[k].mp["status"] = Str(IF k = 1 THEN "active" ELSE "queued")
            /\ {k \in 1..Len(cards) : cards[k].mp["status"] = Str("active")}
                   = IF rows = <<>> THEN {} ELSE {1}

\* a topic with several rows was populated and the queue of the session is
\* the result
PopulateWitness ==
    /\ pc = "responder"
    /\ \E i \in PopulateCalls :
        /\ Len(get_flashcards_by_topic_id(TopicOf(i)).rows) >= 2
        /\ calls[i].after["flashcard_states"]
               = List(populate_flashcards(TopicOf(i)).cards)
        /\ calls[i].before["flashcard_states"] # calls[i].after["flashcard_states"]

----------------------------------------------------------------------------
(* Properties of the queue, the router and evaluate                        *)

\* the positions of the entries of a queue that have status active
ActiveEntries(q) ==
    {i \in 1..Len(q) :
        /\ IsDict(q[i])
        /\ "status" \in DOMAIN q[i].mp
        /\ q[i].mp["status"] = Str("active")}

\* the queue of a state, empty when flashcard_states is not a sequence
QueueOf(st) ==
    IF IsList(st["flashcard_states"]) THEN st["flashcard_states"].ls ELSE <<>>

\* C13: in every state of a session, whatever plans were executed and
\* evaluations made, the queue has at most one active entry, and the first
\* entry of a queue that is not empty is the active one.
QueueInvariant ==
    LET q == QueueOf(state)
    IN  /\ Cardinality(ActiveEntries(q)) <= 1
        /\ q # <<>> => 1 \in ActiveEntries(q)

\* quiz_state asks for an evaluation: a mapping whose state is
\* awaiting_evaluation, or that text itself
AwaitsEvaluation(st) ==
    /\ "quiz_state" \in DOMAIN st
    /\ \/ st["quiz_state"] = Str("awaiting_evaluation")
       \/ /\ IsDict(st["quiz_state"])
          /\ "state" \in DOMAIN st["quiz_state"].mp
          /\ st["quiz_state"].mp["state"] = Str("awaiting_evaluation")

\* C14: the router is total and has no effect on the state: after a plan
\* that ran to its end the evaluator is next iff quiz_state asks for an
\* evaluation and the responder is next for every other quiz_state (missing,
\* null, another mapping, another text, another type); the state is the one
\* execute_plan returned, and the turn fails only where execute_plan or
\* evaluate raised.
RouterRule ==
    /\ pc \in {"planner", "executor", "evaluator", "responder", "end", "failed"}
    /\ (pc = "failed" /\ evaluated = <<>>) => raised
    /\ (pc \in {"evaluator", "responder"} /\ evaluated = <<>>) =>
        /\ ~raised
        /\ state = execute_plan(prev, current_plan).st
        /\ pc = "evaluator" <=> AwaitsEvaluation(state)

\* the evaluator is next because quiz_state is the bare text
RouterWitness ==
    /\ pc = "evaluator"
    /\ evaluated = <<>>
    /\ "quiz_state" \in DOMAIN state
    /\ state["quiz_state"] = Str("awaiting_evaluation")
    /\ "quiz_state" \in DOMAIN prev
    /\ prev["quiz_state"] # state["quiz_state"]

\* the first active entry of the queue evaluate received has no answer
NoAnswer(q) ==
    /\ ActiveEntries(q) # {}
    /\ LET first == CHOOSE i \in ActiveEntries(q) : \A j \in ActiveEntries(q) : i <= j
       IN  /\ "user_answers" \in DOMAIN q[first].mp
           /\ q[first].mp["user_answers"] = List(<<>>)

\* every entry of the queue is a record that has a status
Orderly(q) == \A i \in 1..Len(q) : IsDict(q[i]) /\ "status" \in DOMAIN q[i].mp

\* C15: when no entry of flashcard_states is active (an empty queue too) or
\* the active card has no answer, evaluate raises before the evaluator
\* chain is invoked: no evaluation is recorded and no counter changes, in
\* the state it received and in the state of the session; the exception is
\* the ValueError of the precondition when the entries of the queue are
\* records with a status.
EvaluateRejects ==
    \A k \in 1..Len(evaluated) :
        LET e == evaluated[k]
            q == QueueOf(e.before)
        IN  (ActiveEntries(q) = {} \/ NoAnswer(q)) =>
                /\ ~e.ok
                /\ ~e.invoked
                /\ e.input = e.before
                /\ e.after = e.before
                /\ state = prev
                /\ pc = "failed"
                /\ (Orderly(q) /\ e.before["flashcard_states"] \in {List(q), Dict(<<>>)})
                       => e.err = "ValueError"

\* evaluate was called on a queue whose active card has no answer, and
\* raised the ValueError
EvaluateRejectsWitness ==
    /\ evaluated # <<>>
    /\ NoAnswer(QueueOf(evaluated[1].before))
    /\ evaluated[1].err = "ValueError"
    /\ pc = "failed"

\* C20: evaluate returns a new state and leaves the state it received as it
\* was: after a call that returned, the caller's input still has the
\* active card without the new evaluation and the counters it had.
EvaluateLeavesInput ==
    \A k \in 1..Len(evaluated) :
        evaluated[k].ok => evaluated[k].input = evaluated[k].before

\* the counter k of the score of a state: 0 when the state has no score or
\* the score has no counter k
Tally(st, k) ==
    IF "score" \in DOMAIN st /\ k \in DOMAIN st["score"].mp
    THEN st["score"].mp[k].nm ELSE 0

\* correct + incorrect <= total_attempts
TallyInvariant(st) ==
    Tally(st, "correct") + Tally(st, "incorrect") <= Tally(st, "total_attempts")

\* C21: an evaluation that returned has written the verdict onto the first
\* active card of the queue and nothing else: the other fields of the card
\* (status, attempts, user_answers), the other cards and the other fields
\* of the state are as before.  total_attempts is one more, correct is one
\* more iff the verdict is correct, incorrect is one more iff it is
\* incorrect, neither changes on partial, and correct + incorrect <=
\* total_attempts still holds if it held before.
EvaluateScores ==
    \A n \in 1..Len(evaluated) :
        evaluated[n].ok =>
            LET e == evaluated[n]
                q == QueueOf(e.before)
                first == CHOOSE i \in ActiveEntries(q) :
                            \A j \in ActiveEntries(q) : i <= j
                after == QueueOf(e.after)
                Plus(k) == IF e.result = k THEN 1 ELSE 0
            IN  /\ ActiveEntries(q) # {}
                /\ Len(after) = Len(q)
                /\ \A j \in (1..Len(q)) \ {first} : after[j] = q[j]
                /\ DOMAIN after[first].mp = DOMAIN q[first].mp \cup {"evaluation"}
                /\ \A k \in DOMAIN q[first].mp \ {"evaluation"} :
                        after[first].mp[k] = q[first].mp[k]
                /\ after[first].mp["evaluation"].mp["result"] = Str(e.result)
                /\ DOMAIN e.after = DOMAIN e.before \cup {"score"}
                /\ \A k \in DOMAIN e.before \ {"score", "flashcard_states"} :
                        e.after[k] = e.before[k]
                /\ Tally(e.after, "total_attempts") = Tally(e.before, "total_attempts") + 1
                /\ Tally(e.after, "correct") = Tally(e.before, "correct") + Plus("correct")
                /\ Tally(e.after, "incorrect")
                       = Tally(e.before, "incorrect") + Plus("incorrect")
                /\ TallyInvariant(e.before) => TallyInvariant(e.after)

\* the second evaluation of a session gave the verdict partial on a queue
\* with two active cards: the first of them has the verdict and only
\* total_attempts has grown
EvaluateScoresWitness ==
    /\ evaluated # <<>>
    /\ evaluated[1].ok
    /\ Cardinality(ActiveEntries(QueueOf(evaluated[1].before))) = 2
    /\ evaluated[1].result = "partial"
    /\ Tally(evaluated[1].before, "total_attempts") = 1
    /\ Tally(state, "total_attempts") = 2
    /\ Tally(state, "correct") + Tally(state, "incorrect") = 1
    /\ pc = "responder"

----------------------------------------------------------------------------
(* Properties of a turn of the workflow graph                              *)

\* the nodes of a turn without and with an evaluation, one node in a step
Turns ==
    { <<{"planner"}, {"executor"}, {"responder"}>>,
      <<{"planner"}, {"executor"}, {"evaluator"}, {"responder"}>> }

\* the nodes of the steps of this turn so far
NodesRan == [k \in 1..Len(ran) |-> ran[k].nodes]

\* C22: the nodes of a turn run one at a time in the order planner,
\* executor, evaluator only when the router names it for the state the
\* executor returned, responder, END; at END the responder has run exactly
\* once, and when the evaluator runs, the responder is not started in its
\* step nor on the state from before the evaluation, but on the state the
\* evaluator returned.  (That the turn ends is not part of this formula.)
TurnOrder ==
    /\ \E t \in Turns :
        /\ Len(ran) <= Len(t)
        /\ NodesRan = SubSeq(t, 1, Len(ran))
    /\ Len(ran) >= 3 =>
        ("evaluator" \in ran[3].nodes
            <=> route_to_evaluation_or_response(ran[3].input) = "evaluator")
    /\ pc = "end" => NodesRan \in Turns
    /\ \A k \in 1..Len(ran) :
        ("responder" \in ran[k].nodes /\ evaluated # <<>>)
            => ran[k].input = evaluated[1].after

----------------------------------------------------------------------------
(* Properties of the plan parser, stated on the reply of this turn         *)

\* the planner has read a reply in this turn
Replied == pc # "planner"

\* the kinds of the pieces of the reply
Kinds == {reply.pieces[k].kind : k \in 1..Len(reply.pieces)}

\* C16: parse_llm_plan_response raises on no text, whatever is missing or
\* left open in it: it returns a list of steps, which may be empty, and the
\* list becomes the plan of the turn.
ParseNeverRaises ==
    Replied =>
        LET result == parse_llm_plan_response(ReplyText(reply))
        IN  /\ result.ok
            /\ current_plan = result.plans
            /\ \A k \in 1..Len(current_plan) :
                DOMAIN current_plan[k] = {"description", "step_id", "tool", "tool_input"}
            /\ pc = "failed" => (raised \/ evaluated # <<>>)

\* a reply of fragments without "=", without "[" and with an open bracket
\* was parsed, to an empty plan
ParseNeverRaisesWitness ==
    /\ pc = "executor"
    /\ {"noeq", "nobracket", "open"} \subseteq Kinds
    /\ current_plan = <<>>

\* the reply without its piece number k
Without(r, k) ==
    [r EXCEPT !.pieces = SubSeq(r.pieces, 1, k - 1) \o SubSeq(r.pieces, k + 1, Len(r.pieces))]

OpenPieces == {k \in 1..Len(reply.pieces) : reply.pieces[k].kind = "open"}

\* C17: when one step of a reply has brackets that do not close, that step
\* alone is missing from the result: the steps before and after it, of its
\* plan group and of the others, are returned as they are for the reply
\* without the step.
UnclosedStepIsolated ==
    (Replied /\ Cardinality(OpenPieces) = 1) =>
        LET k == CHOOSE j \in OpenPieces : TRUE
        IN  /\ current_plan = parse_llm_plan_response(ReplyText(Without(reply, k))).plans
            /\ \A j \in 1..Len(current_plan) : current_plan[j].step_id # "E3"

\* a step before the unclosed step and a step after it were returned
UnclosedStepWitness ==
    /\ pc = "executor"
    /\ Len(reply.pieces) = 3
    /\ reply.pieces[1].kind = "step"
    /\ reply.pieces[2].kind = "open"
    /\ reply.pieces[3].kind = "step"
    /\ Len(current_plan) = 2
    /\ current_plan[2].tool_input # <<>>

\* the steps of a sequence of headers and steps, each with the description
\* of the header before it
RECURSIVE StepsOf(_, _)
StepsOf(pieces, description) ==
    IF pieces = <<>> THEN <<>>
    ELSE IF Head(pieces).kind = "plan"
    THEN StepsOf(Tail(pieces), Join(Strip(Head(pieces).desc)))
    ELSE <<[description |-> description,
            step_id |-> "E" \o Join(Strip(Head(pieces).id)),
            tool |-> Join(Strip(Head(pieces).name)),
            tool_input |-> parse_tool_input(InputText(Head(pieces).items)).updates]>>
            \o StepsOf(Tail(pieces), description)

\* C18: for a reply whose steps are all well formed the result has one step
\* per step of the reply, in the order of the text through all plan groups,
\* with the trimmed description of its group, step_id "E" and the trimmed
\* text before the first "=", the trimmed text between that "=" and the
\* first "[" as tool name, and as tool input parse_tool_input of the text
\* between that "[" and the "]" that closes it; brackets inside stay in the
\* input, text after the closing "]" is ignored, and a group without steps
\* gives no step.
StepsInOrder ==
    (Replied /\ Kinds \subseteq {"plan", "step"}) =>
        current_plan = StepsOf(reply.pieces, Join(Strip(reply.lead.desc)))

\* every entry of a value that is a sequence is a mapping
AllDicts(v) == \A i \in 1..Len(v.ls) : IsDict(v.ls[i])

\* the pair of an item that is not for flashcard_states: none when the item
\* has no "=", the decoded value or the text of the value otherwise
OtherPair(item) ==
    IF item.field = <<>> THEN <<>> ELSE << <<item.field, item.value>> >>

\* a pair for flashcard_states only for a sequence of mappings
WholePair(item) ==
    IF item.field # <<"flashcard_states">> THEN OtherPair(item)
    ELSE IF item.decodes /\ IsList(item.value) /\ AllDicts(item.value)
    THEN << <<item.field, item.value>> >>
    ELSE <<>>

\* a pair for flashcard_states for every sequence, with its mappings
FilteredPair(item) ==
    IF item.field # <<"flashcard_states">> THEN OtherPair(item)
    ELSE IF item.decodes /\ IsList(item.value)
    THEN << <<item.field, List(SelectSeq(item.value.ls, IsDict))>> >>
    ELSE <<>>

RECURSIVE Flatten(_)
Flatten(qs) == IF qs = <<>> THEN <<>> ELSE Head(qs) \o Flatten(Tail(qs))

StepPieces == {k \in 1..Len(reply.pieces) : reply.pieces[k].kind = "step"}

\* C19: parse_tool_input returns a pair for flashcard_states only when the
\* value decodes to a sequence of mapping records; an item whose value does
\* not decode, is no sequence, or is a sequence with an entry that is no
\* mapping is dropped whole and never returned as text, and the other items
\* are returned in their order.
CardItemsAllOrNothing ==
    \A k \in StepPieces :
        LET r == parse_tool_input(InputText(reply.pieces[k].items))
        IN  /\ r.ok
            /\ r.updates = Flatten([i \in 1..Len(reply.pieces[k].items) |->
                                     WholePair(reply.pieces[k].items[i])])

\* C19, amended: parse_tool_input returns a pair for flashcard_states iff
\* the value decodes to a sequence, and the value of the pair is the
\* sequence of the entries that are mappings, in their order; an item whose
\* value does not decode or is no sequence is dropped whole and never
\* returned as text, and the other items are returned in their order.
CardItemsFiltered ==
    \A k \in StepPieces :
        LET r == parse_tool_input(InputText(reply.pieces[k].items))
        IN  /\ r.ok
            /\ r.updates = Flatten([i \in 1..Len(reply.pieces[k].items) |->
                                     FilteredPair(reply.pieces[k].items[i])])

\* a sequence with an entry that is no mapping was offered before another
\* item, and the plan has the mappings of the sequence and the other item
CardItemsWitness ==
    /\ pc = "executor"
    /\ Len(reply.pieces) = 1
    /\ reply.pieces[1].items = <<MixedCardsItem, TextItem>>
    /\ Len(current_plan) = 1
    /\ current_plan[1].tool_input
           = << <<<<"flashcard_states">>, List(<<Dict("id" :> Num(1))>>)>>,
                <<<<"n">>, Str("w")>> >>

----------------------------------------------------------------------------
(* Properties of execute_plan on the plans of the parser                   *)

\* the populate_flashcards steps execute_plan reached in this turn
PopulateSteps == {i \in 1..Len(calls) : calls[i].tool = "populate_flashcards"}

\* the values of the arguments of a tool input that are named topic_id
TopicArguments(tool_input) ==
    {tool_input[j][2] : j \in {j \in 1..Len(tool_input) :
                                    tool_input[j][1] = <<"topic_id">>}}

\* C23: execute_plan returns without an exception for every plan that
\* parse_llm_plan_response produced and processes every step of it; a
\* populate_flashcards step whose parsed tool input is the empty list is
\* processed like the others, and the topic a populate_flashcards step
\* hands to populate_flashcards is the value of its topic_id argument.
ExecuteCompletes ==
    (reply # NoReply /\ Len(ran) >= 2) =>
        /\ ~raised
        /\ Len(calls) = Len(current_plan)
        /\ \A i \in PopulateSteps :
              /\ calls[i].ok
              /\ calls[i].tool_input # <<>>
                    => TopicArguments(calls[i].tool_input) = {TopicOf(i)}

====
